---------------------------- MODULE Spec2Model ----------------------------
(***************************************************************************)
(* test-patience: a Server (TcpListener bound to 127.0.0.1:0) whose wait   *)
(* polls a non-blocking accept until a peer delivers "done" or the timeout *)
(* has passed, and a Client whose notify connects, writes "done" and       *)
(* drops the stream.                                                       *)
(*                                                                         *)
(* Time is a discrete clock `now`.  One millisecond is TicksPerMs ticks,   *)
(* so that a timeout need not be a multiple of the 1 ms poll interval.     *)
(* Timing idealisation: every statement of wait takes no time, except      *)
(* thread::sleep (exactly the poll interval) and a read_to_end that has    *)
(* nothing to read yet (blocks until the peer writes or closes).  Peers    *)
(* are not constrained in time at all.                                     *)
(***************************************************************************)
EXTENDS Naturals, Sequences, FiniteSets

\* ------------------------------------------------------------------ bounds
\* how long wait is followed after its start, in ticks
MaxTime == 6
\* the largest timeout wait is called with, in ticks
MaxTimeout == 4
\* how long after Server::new wait is called at the latest, in ticks
MaxDelay == 2
\* the resolution of the clock
TicksPerMs == 2

\* --------------------------------------------------------------- constants
\* thread::sleep(Duration::from_millis(1))
SleepMs == 1
\* TcpListener::bind(("127.0.0.1", 0)): the port asked for
RequestedPort == 0
PollInterval == SleepMs * TicksPerMs

\* b"done": written by notify, expected by wait
Done == <<"d", "o", "n", "e">>

\* the ports the OS may assign to a listener bound to port 0
AssignedPorts == {49152, 49153}

\* the processes that may connect to the session port, named in the order
\* in which they try to
PeerOrder == <<"p1", "p2">>
Peers == {PeerOrder[i] : i \in DOMAIN PeerOrder}

\* what a peer that is not Client::notify may send before it closes
RawPayloads ==
    { << >>,
      <<"d", "o", "n">>,
      <<"d", "o", "n", "e">>,
      <<"d", "o", "n", "e", "x">>,
      <<"o", "o", "p", "s">> }

\* kinds of the OS errors that set_nonblocking, accept (other than
\* WouldBlock) and read may return; the code passes them on unchanged.
\* set_nonblocking: EINVAL.  accept(2) lists ECONNABORTED, EMFILE (an errno
\* std maps to no named kind: Other in the std this crate was written for)
\* and ETIMEDOUT; read gives ECONNRESET, ETIMEDOUT, and EWOULDBLOCK where the
\* accepted socket inherits O_NONBLOCK.
SetupErrKinds == {"InvalidInput"}
AcceptErrKinds == {"ConnectionAborted", "Other", "TimedOut"}
ReadErrKinds == {"ConnectionReset", "TimedOut", "WouldBlock"}

VARIABLES
    now,          \* the clock, in ticks
    pc,           \* where the Server is
    nonblocking,  \* the listener's O_NONBLOCK flag
    timeout,      \* wait's argument, in ticks
    start,        \* Instant::now() of line 103
    wakeAt,       \* when the current thread::sleep ends
    listener,     \* "open" | "closed"
    backlog,      \* established connections not yet accepted, oldest first
    accepted,     \* the connections accept returned, in order
    buf,          \* read_to_end's buffer
    result,       \* what wait returned
    peer,         \* per peer: position, kind, payload, bytes sent, result
    wire,         \* per peer: bytes written and not yet read by the server
    hist,         \* history: counters and times the properties speak about
    port,         \* the port the listener is bound to
    handed        \* the ports that calls of Server::port have returned

vars == <<now, pc, nonblocking, timeout, start, wakeAt, listener, backlog,
          accepted, buf, result, peer, wire, hist, port, handed>>

NoResult == [tag |-> "none", kind |-> "none", msg |-> "none", dur |-> 0, path |-> "none"]

IdlePeer == [pc |-> "idle", kind |-> "none", payload |-> << >>, sent |-> 0, res |-> "none"]

NoHist == [polls |-> 0, sleeps |-> 0, retTime |-> 0, acceptTime |-> 0,
           first |-> "none", firstTime |-> 0, firstInWait |-> FALSE,
           pendingAtStart |-> FALSE, lateConnectOk |-> FALSE,
           failAt |-> "none", failKind |-> "none", firstLate |-> FALSE]

\* Server::new: the listener is bound to a port of the OS's choice and
\* listening; nothing else has happened.
Init ==
    /\ port \in AssignedPorts
    /\ handed = {}
    /\ now = 0
    /\ pc = "created"
    /\ nonblocking = FALSE
    /\ timeout = 0
    /\ start = 0
    /\ wakeAt = 0
    /\ listener = "open"
    /\ backlog = << >>
    /\ accepted = << >>
    /\ buf = << >>
    /\ result = NoResult
    /\ peer = [p \in Peers |-> IdlePeer]
    /\ wire = [p \in Peers |-> << >>]
    /\ hist = NoHist


\* ----------------------------------------------------------------- helpers
\* the stream wait is reading: the connection the last accept returned
stream == accepted[Len(accepted)]

\* start.elapsed()
Elapsed == now - start

\* all bytes peer p has written on its connection so far
Written(p) == SubSeq(peer[p].payload, 1, peer[p].sent)

\* the peer's end of the connection is closed (its TcpStream was dropped)
PeerClosed(p) == peer[p].pc \in {"closed", "failed"} /\ peer[p].kind # "none"

\* the server's end of p's connection is gone: the listener was dropped with
\* the connection still pending, or wait returned and dropped the stream
ServerGone(p) == peer[p].pc = "connected" /\ listener = "closed"

\* mutant of LoopCond: the deadline itself is still inside the loop
LoopCondInclusive(elapsed, t) == elapsed <= t

\* mutant of LoopCond: the loop gives up one poll interval early
LoopCondEarly(elapsed, t) == elapsed + PollInterval < t

\* line 104: while start.elapsed() < timeout
LoopCond(elapsed, t) == elapsed < t

\* mutant of PayloadOk: only the first bytes are compared
PayloadOkPrefix(b) == Len(b) >= Len(Done) /\ SubSeq(b, 1, Len(Done)) = Done

\* line 109: buf == b"done"
PayloadOk(b) == b = Done

\* mutant of OkResult: the duration is the one measured at the accept
OkResultAtAccept(d) ==
    [tag |-> "Ok", kind |-> "none", msg |-> "none", dur |-> hist.acceptTime - start,
     path |-> "ok"]

\* Ok(start.elapsed())
OkResult(d) == [tag |-> "Ok", kind |-> "none", msg |-> "none", dur |-> d, path |-> "ok"]

\* Error::new(ErrorKind::Other, "wrong startup notification received")
ProtocolError ==
    [tag |-> "Err", kind |-> "Other", msg |-> "wrong startup notification received",
     dur |-> 0, path |-> "protocol"]

\* Error::new(ErrorKind::TimedOut, "did not receive startup notification")
TimeoutError ==
    [tag |-> "Err", kind |-> "TimedOut", msg |-> "did not receive startup notification",
     dur |-> 0, path |-> "timeout"]

\* an error of the OS, passed on by `?` or by `Err(e) => return Err(e)`
IoError(k) == [tag |-> "Err", kind |-> k, msg |-> "os error", dur |-> 0, path |-> "io"]

\* mutant of ListenerAfterWait: the listening socket outlives wait
ListenerLeftOpen == "open"

\* the state of the listening socket once wait has returned: wait takes
\* self by value, so the TcpListener is dropped (closed) on every return
ListenerAfterWait == "closed"

\* every return of wait: the result goes to the caller and self is dropped
Return(res, h) ==
    /\ pc' = "done"
    /\ result' = res
    /\ listener' = ListenerAfterWait
    /\ hist' = [h EXCEPT !.retTime = now]
    /\ UNCHANGED <<port, handed, now, nonblocking, timeout, start, wakeAt, backlog, accepted, buf,
                   peer, wire>>


\* ------------------------------------------------------------------ Server
\* mutant of PortQuery: the port asked for at bind is returned
PortQueryRequested ==
    /\ pc = "created"
    /\ handed' = handed \cup {RequestedPort}
    /\ UNCHANGED <<port, now, pc, nonblocking, timeout, start, wakeAt, listener,
                   backlog, accepted, buf, result, peer, wire, hist>>

\* lines 93-95: Server::port(&self) returns the port of the listener's local
\* address; it needs the Server, which wait consumes
PortQuery ==
    /\ pc = "created"
    /\ handed' = handed \cup {port}
    /\ UNCHANGED <<port, now, pc, nonblocking, timeout, start, wakeAt, listener,
                   backlog, accepted, buf, result, peer, wire, hist>>

\* mutant of WaitCall: the listener is left in blocking mode
WaitCallBlocking(t) ==
    /\ pc = "created"
    /\ pc' = "start"
    /\ timeout' = t
    /\ nonblocking' = FALSE
    /\ UNCHANGED <<port, handed, now, start, wakeAt, listener, backlog, accepted, buf, result,
                   peer, wire, hist>>

\* lines 100-101: wait(self, timeout) is called; set_nonblocking(true) succeeds
WaitCall(t) ==
    /\ pc = "created"
    /\ pc' = "start"
    /\ timeout' = t
    /\ nonblocking' = TRUE
    /\ UNCHANGED <<port, handed, now, start, wakeAt, listener, backlog, accepted, buf, result,
                   peer, wire, hist>>

\* line 101: set_nonblocking(true)? fails and wait returns the OS error
WaitSetupFail(t, k) ==
    /\ pc = "created"
    /\ timeout' = t
    /\ pc' = "done"
    /\ result' = IoError(k)
    /\ listener' = ListenerAfterWait
    /\ hist' = [hist EXCEPT !.retTime = now, !.failAt = "setup", !.failKind = k]
    /\ UNCHANGED <<port, handed, now, nonblocking, start, wakeAt, backlog, accepted,
                   buf, peer, wire>>

\* mutant of TakeStart: the start timestamp is the one of Server::new
TakeStartAtNew ==
    /\ pc = "start"
    /\ start' = 0
    /\ pc' = "check"
    /\ hist' = [hist EXCEPT !.pendingAtStart =
                    /\ backlog # << >>
                    /\ peer[Head(backlog)].pc = "closed"
                    /\ Written(Head(backlog)) = Done]
    /\ UNCHANGED <<port, handed, now, nonblocking, timeout, wakeAt, listener, backlog, accepted,
                   buf, result, peer, wire>>

\* line 103: let start = Instant::now()
TakeStart ==
    /\ pc = "start"
    /\ start' = now
    /\ pc' = "check"
    /\ hist' = [hist EXCEPT !.pendingAtStart =
                    /\ backlog # << >>
                    /\ peer[Head(backlog)].pc = "closed"
                    /\ Written(Head(backlog)) = Done]
    /\ UNCHANGED <<port, handed, now, nonblocking, timeout, wakeAt, listener, backlog, accepted,
                   buf, result, peer, wire>>

\* line 104: the loop condition holds, the body is entered
LoopEnter ==
    /\ pc = "check"
    /\ LoopCond(Elapsed, timeout)
    /\ pc' = "accept"
    /\ UNCHANGED <<port, handed, now, nonblocking, timeout, start, wakeAt, listener, backlog,
                   accepted, buf, result, peer, wire, hist>>

\* mutant of TimeoutReturn: a connection that is pending when the loop ends
\* is still accepted
TimeoutReturnLastChance ==
    /\ pc = "check"
    /\ ~LoopCond(Elapsed, timeout)
    /\ IF backlog # << >>
          THEN /\ pc' = "accept"
               /\ UNCHANGED <<port, handed, now, nonblocking, timeout, start, wakeAt, listener,
                              backlog, accepted, buf, result, peer, wire, hist>>
          ELSE Return(TimeoutError, hist)

\* lines 104, 120: the loop condition fails, wait returns the timeout error
TimeoutReturn ==
    /\ pc = "check"
    /\ ~LoopCond(Elapsed, timeout)
    /\ Return(TimeoutError, hist)

\* mutant of AcceptOk: accept() returns the newest pending connection
AcceptNewest ==
    /\ pc = "accept"
    /\ backlog # << >>
    /\ accepted' = Append(accepted, backlog[Len(backlog)])
    /\ backlog' = SubSeq(backlog, 1, Len(backlog) - 1)
    /\ buf' = << >>
    /\ pc' = "read"
    /\ hist' = [hist EXCEPT !.polls = @ + 1, !.acceptTime = now]
    /\ UNCHANGED <<port, handed, now, nonblocking, timeout, start, wakeAt, listener, result,
                   peer, wire>>

\* lines 105-107: accept() returns the oldest pending connection
AcceptOk ==
    /\ pc = "accept"
    /\ backlog # << >>
    /\ accepted' = Append(accepted, Head(backlog))
    /\ backlog' = Tail(backlog)
    /\ buf' = << >>
    /\ pc' = "read"
    /\ hist' = [hist EXCEPT !.polls = @ + 1, !.acceptTime = now]
    /\ UNCHANGED <<port, handed, now, nonblocking, timeout, start, wakeAt, listener, result,
                   peer, wire>>

\* lines 105, 115, 118: nothing is pending, accept() returns WouldBlock on the
\* non-blocking listener; the arm is empty and the thread goes to sleep
AcceptWouldBlock ==
    /\ pc = "accept"
    /\ backlog = << >>
    /\ nonblocking
    /\ pc' = "sleep"
    /\ wakeAt' = now + PollInterval
    /\ hist' = [hist EXCEPT !.polls = @ + 1, !.sleeps = @ + 1]
    /\ UNCHANGED <<port, handed, now, nonblocking, timeout, start, listener, backlog, accepted,
                   buf, result, peer, wire>>

\* mutant of AcceptFail: the error is treated like WouldBlock, the loop
\* sleeps and polls again
AcceptFailRetry(k) ==
    /\ pc = "accept"
    /\ pc' = "sleep"
    /\ wakeAt' = now + PollInterval
    /\ hist' = [hist EXCEPT !.polls = @ + 1, !.sleeps = @ + 1,
                            !.failAt = "accept", !.failKind = k]
    /\ UNCHANGED <<port, handed, now, nonblocking, timeout, start, listener, backlog, accepted,
                   buf, result, peer, wire>>

\* lines 105, 116: accept() fails with another error, which wait returns
AcceptFail(k) ==
    /\ pc = "accept"
    /\ Return(IoError(k), [hist EXCEPT !.polls = @ + 1,
                                       !.failAt = "accept", !.failKind = k])

\* line 108: read_to_end takes the bytes that have arrived
ReadData ==
    /\ pc = "read"
    /\ wire[stream] # << >>
    /\ buf' = buf \o wire[stream]
    /\ wire' = [wire EXCEPT ![stream] = << >>]
    /\ UNCHANGED <<port, handed, now, pc, nonblocking, timeout, start, wakeAt, listener, backlog,
                   accepted, result, peer, hist>>

\* mutant of ReadEof: a wrong payload is dropped and the loop goes on polling
ReadEofRetry ==
    /\ pc = "read"
    /\ wire[stream] = << >>
    /\ PeerClosed(stream)
    /\ IF PayloadOk(buf)
          THEN Return(OkResult(Elapsed), hist)
          ELSE /\ pc' = "sleep"
               /\ wakeAt' = now + PollInterval
               /\ hist' = [hist EXCEPT !.sleeps = @ + 1]
               /\ UNCHANGED <<port, handed, now, nonblocking, timeout, start, listener, backlog,
                              accepted, buf, result, peer, wire>>

\* mutant of ReadEof: a wrong payload leaves the loop and ends as a timeout
ReadEofBreak ==
    /\ pc = "read"
    /\ wire[stream] = << >>
    /\ PeerClosed(stream)
    /\ IF PayloadOk(buf)
          THEN Return(OkResult(Elapsed), hist)
          ELSE Return(TimeoutError, hist)

\* lines 108-113: read_to_end sees end-of-stream; the buffer is compared and
\* wait returns
ReadEof ==
    /\ pc = "read"
    /\ wire[stream] = << >>
    /\ PeerClosed(stream)
    /\ IF PayloadOk(buf)
          THEN Return(OkResult(Elapsed), hist)
          ELSE Return(ProtocolError, hist)

\* line 108: read_to_end(..)? fails and wait returns the OS error
ReadFail(k) ==
    /\ pc = "read"
    /\ Return(IoError(k), [hist EXCEPT !.failAt = "read", !.failKind = k])

\* line 118: thread::sleep(1 ms) is over; back to the loop condition
Wake ==
    /\ pc = "sleep"
    /\ now >= wakeAt
    /\ pc' = "check"
    /\ UNCHANGED <<port, handed, now, nonblocking, timeout, start, wakeAt, listener, backlog,
                   accepted, buf, result, peer, wire, hist>>


\* ------------------------------------------------------------------- peers
\* p is the next peer to try to connect
IsNext(p) ==
    \A i \in DOMAIN PeerOrder :
        PeerOrder[i] = p => \A j \in 1..(i - 1) : peer[PeerOrder[j]].pc # "idle"

\* the history of the first connection made to the session port
NoteConnect(p) ==
    [hist EXCEPT !.first = IF @ = "none" THEN p ELSE @,
                 !.firstTime = IF hist.first = "none" THEN now ELSE @,
                 !.firstInWait = IF hist.first = "none"
                                   THEN pc \notin {"created", "start"} ELSE @,
                 !.lateConnectOk = @ \/ pc = "done",
                 !.firstLate = IF hist.first = "none"
                                 THEN \/ pc = "sleep" /\ wakeAt - start >= timeout
                                      \/ pc = "check" /\ Elapsed >= timeout
                                 ELSE @]

\* the peers have been given the port the listener is bound to
PortKnown == port \in handed

\* TcpStream::connect to the port Server::port returned: the kernel of the
\* listening socket completes the handshake and queues the connection,
\* whether or not the Server is in accept
Connect(p, k, pl) ==
    /\ peer[p].pc = "idle"
    /\ IsNext(p)
    /\ PortKnown
    /\ listener = "open"
    /\ peer' = [peer EXCEPT ![p] = [pc |-> "connected", kind |-> k, payload |-> pl,
                                     sent |-> 0, res |-> "none"]]
    /\ backlog' = Append(backlog, p)
    /\ hist' = NoteConnect(p)
    /\ UNCHANGED <<port, handed, now, pc, nonblocking, timeout, start, wakeAt, listener, accepted,
                   buf, result, wire>>

\* line 71: Client::notify connects
NotifyConnect(p) == Connect(p, "notify", Done)

\* line 71: TcpStream::connect(..)? fails, nothing listens on the port any
\* more; notify returns the error
NotifyConnectFail(p) ==
    /\ peer[p].pc = "idle"
    /\ IsNext(p)
    /\ listener = "closed"
    /\ peer' = [peer EXCEPT ![p] = [pc |-> "failed", kind |-> "notify", payload |-> Done,
                                     sent |-> 0, res |-> "Err"]]
    /\ UNCHANGED <<port, handed, now, pc, nonblocking, timeout, start, wakeAt, listener, backlog,
                   accepted, buf, result, wire, hist>>

\* mutant of NotifyWrite: a single write that is cut short
NotifyWriteShort(p) ==
    /\ peer[p].kind = "notify"
    /\ peer[p].pc = "connected"
    /\ peer' = [peer EXCEPT ![p].pc = "written", ![p].sent = Len(Done) - 1]
    /\ wire' = [wire EXCEPT ![p] = @ \o SubSeq(Done, 1, Len(Done) - 1)]
    /\ UNCHANGED <<port, handed, now, pc, nonblocking, timeout, start, wakeAt, listener, backlog,
                   accepted, buf, result, hist>>

\* line 72: stream.write_all(b"done") succeeds
NotifyWrite(p) ==
    /\ peer[p].kind = "notify"
    /\ peer[p].pc = "connected"
    /\ peer' = [peer EXCEPT ![p].pc = "written", ![p].sent = Len(Done)]
    /\ wire' = [wire EXCEPT ![p] = @ \o Done]
    /\ UNCHANGED <<port, handed, now, pc, nonblocking, timeout, start, wakeAt, listener, backlog,
                   accepted, buf, result, hist>>

\* line 72: stream.write_all(b"done")? fails, the connection was reset because
\* the Server is gone; notify returns the error and drops the stream
NotifyWriteFail(p) ==
    /\ peer[p].kind = "notify"
    /\ ServerGone(p)
    /\ peer' = [peer EXCEPT ![p].pc = "failed", ![p].res = "Err"]
    /\ UNCHANGED <<port, handed, now, pc, nonblocking, timeout, start, wakeAt, listener, backlog,
                   accepted, buf, result, wire, hist>>

\* mutant of NotifyReturn: notify returns only once the Server has accepted
\* the connection
NotifyReturnAcked(p) ==
    /\ peer[p].kind = "notify"
    /\ peer[p].pc = "written"
    /\ \E i \in DOMAIN accepted : accepted[i] = p
    /\ peer' = [peer EXCEPT ![p].pc = "closed", ![p].res = "Ok"]
    /\ UNCHANGED <<port, handed, now, pc, nonblocking, timeout, start, wakeAt, listener, backlog,
                   accepted, buf, result, wire, hist>>

\* lines 73-74: notify returns Ok(()) and the stream is dropped, which closes
\* the connection
NotifyReturn(p) ==
    /\ peer[p].kind = "notify"
    /\ peer[p].pc = "written"
    /\ peer' = [peer EXCEPT ![p].pc = "closed", ![p].res = "Ok"]
    /\ UNCHANGED <<port, handed, now, pc, nonblocking, timeout, start, wakeAt, listener, backlog,
                   accepted, buf, result, wire, hist>>

\* a peer that is not Client::notify connects; pl is what it is going to send
RawConnect(p, pl) == Connect(p, "raw", pl)

\* the next chunk such a peer writes: what is left of its payload, and at
\* most as many bytes as the expected payload has
Chunk(p) ==
    IF Len(peer[p].payload) - peer[p].sent < Len(Done)
      THEN Len(peer[p].payload) - peer[p].sent
      ELSE Len(Done)

\* such a peer writes the next n bytes of its payload
RawWrite(p, n) ==
    /\ peer[p].kind = "raw"
    /\ peer[p].pc = "connected"
    /\ n > 0
    /\ peer[p].sent + n <= Len(peer[p].payload)
    /\ peer' = [peer EXCEPT ![p].sent = @ + n]
    /\ wire' = [wire EXCEPT ![p] = @ \o SubSeq(peer[p].payload, peer[p].sent + 1,
                                                 peer[p].sent + n)]
    /\ UNCHANGED <<port, handed, now, pc, nonblocking, timeout, start, wakeAt, listener, backlog,
                   accepted, buf, result, hist>>

\* such a peer closes its connection, having sent its payload; it may also
\* never do so
RawClose(p) ==
    /\ peer[p].kind = "raw"
    /\ peer[p].pc = "connected"
    /\ peer[p].sent = Len(peer[p].payload)
    /\ peer' = [peer EXCEPT ![p].pc = "closed"]
    /\ UNCHANGED <<port, handed, now, pc, nonblocking, timeout, start, wakeAt, listener, backlog,
                   accepted, buf, result, wire, hist>>

\* -------------------------------------------------------------------- time
\* the Server is at a statement that takes no time
ServerUrgent ==
    \/ pc \in {"start", "check", "accept"}
    \/ pc = "sleep" /\ now >= wakeAt
    \/ pc = "read" /\ (wire[stream] # << >> \/ PeerClosed(stream))

\* time passes while the Server sleeps, is blocked in read_to_end or has
\* not been asked to wait yet; nothing reads the clock once wait has returned
Tick ==
    /\ \/ pc = "created" /\ now < MaxDelay
       \/ pc \in {"sleep", "read"} /\ Elapsed < MaxTime
    /\ ~ServerUrgent
    /\ now' = now + 1
    /\ UNCHANGED <<port, handed, pc, nonblocking, timeout, start, wakeAt, listener,
                   backlog, accepted, buf, result, peer, wire, hist>>

\* ------------------------------------------------------------ specification
Next ==
    \/ PortQuery
    \/ \E t \in 0..MaxTimeout : WaitCall(t)
    \/ \E t \in 0..MaxTimeout : \E k \in SetupErrKinds : WaitSetupFail(t, k)
    \/ TakeStart
    \/ LoopEnter
    \/ TimeoutReturn
    \/ AcceptOk
    \/ AcceptWouldBlock
    \/ \E k \in AcceptErrKinds : AcceptFail(k)
    \/ ReadData
    \/ ReadEof
    \/ \E k \in ReadErrKinds : ReadFail(k)
    \/ Wake
    \/ \E p \in Peers : NotifyConnect(p)
    \/ \E p \in Peers : NotifyConnectFail(p)
    \/ \E p \in Peers : NotifyWrite(p)
    \/ \E p \in Peers : NotifyWriteFail(p)
    \/ \E p \in Peers : NotifyReturn(p)
    \/ \E p \in Peers : \E pl \in RawPayloads : RawConnect(p, pl)
    \/ \E p \in Peers : RawWrite(p, Chunk(p))
    \/ \E p \in Peers : RawClose(p)
    \/ Tick

Spec == Init /\ [][Next]_vars


\* ------------------------------------------------------------------ claims
\* what the properties speak about, once wait has returned
Returned == pc = "done"
WaitElapsed == hist.retTime - start
ReadTime == hist.retTime - hist.acceptTime
FirstDelay == hist.firstTime - start
NoIoFailure == result.path # "io"

\* C1 (as claimed): a Client::notify that connects d ticks after wait
\* started polling, 0 <= d < timeout, makes wait return success with
\* d <= elapsed <= d + one poll interval + the time of the read.
C1_NotifyBeforeTimeoutSucceeds ==
    ( /\ Returned
      /\ NoIoFailure
      /\ hist.first # "none"
      /\ hist.firstInWait
      /\ peer[hist.first].kind = "notify"
      /\ FirstDelay < timeout )
    => /\ result.tag = "Ok"
       /\ result.dur >= FirstDelay
       /\ result.dur <= FirstDelay + PollInterval + ReadTime

\* C2 (as claimed): whatever the peers do, wait is never still running later
\* than its timeout (plus the poll interval that the last sleep may add).
C2_WaitBoundedByTimeout ==
    pc \in {"check", "accept", "read", "sleep"} => Elapsed <= timeout + PollInterval

\* C3: if no poll of wait found a connection (and nothing failed), wait
\* returns the timeout error, at an elapsed time >= timeout and at most one
\* poll interval beyond it; a timeout is never reported early.
C3_TimeoutNeverEarly ==
    /\ (Returned /\ NoIoFailure /\ accepted = << >>)
         => /\ result = TimeoutError
            /\ WaitElapsed >= timeout
            /\ WaitElapsed <= timeout + PollInterval
            /\ hist.polls = hist.sleeps
    /\ (Returned /\ result.path = "timeout") => WaitElapsed >= timeout

C3_Witness ==
    /\ Returned
    /\ result = TimeoutError
    /\ accepted = << >>
    /\ hist.polls > 1
    /\ WaitElapsed > timeout

\* C4: if the accepted connection delivered, up to end-of-stream, something
\* other than "done", wait returns the protocol-violation error in that same
\* iteration: not the timeout error, no further accept, no sleep after the
\* accept, however much or little of the timeout is left.
C4_WrongPayloadIsProtocolError ==
    (Returned /\ NoIoFailure /\ accepted # << >> /\ Written(accepted[1]) # Done)
    => /\ result = ProtocolError
       /\ Len(accepted) = 1
       /\ hist.polls = hist.sleeps + 1

C4_Witness ==
    /\ Returned
    /\ result = ProtocolError
    /\ Written(accepted[1]) = <<"o", "o", "p", "s">>
    /\ WaitElapsed + PollInterval < timeout

\* C5: if a complete "done" notification is pending when wait starts, wait
\* with a positive timeout accepts it at its first poll and returns success
\* with elapsed 0, however long the connection had been pending.
C5_BufferedNotificationIsPrompt ==
    (Returned /\ NoIoFailure /\ hist.pendingAtStart /\ timeout > 0)
    => /\ result.tag = "Ok"
       /\ result.dur = 0
       /\ hist.polls = 1
       /\ hist.sleeps = 0

C5_Witness ==
    /\ Returned
    /\ hist.pendingAtStart
    /\ result.tag = "Ok"
    /\ hist.firstTime = 0
    /\ start = MaxDelay

\* C6: wait returns success only if it accepted a connection and all the
\* bytes that connection carried up to its end-of-stream are exactly "done".
C6_SuccessOnlyOnExactDone ==
    result.tag = "Ok"
    => /\ Len(accepted) = 1
       /\ PeerClosed(accepted[1])
       /\ Written(accepted[1]) = Done
       /\ wire[accepted[1]] = << >>
       /\ buf = Done

C6_Witness ==
    /\ result.tag = "Ok"
    /\ peer[accepted[1]].kind = "raw"
    /\ \E p \in Peers : peer[p].payload = <<"d", "o", "n", "e", "x">>

\* C7: at most one connection is accepted during wait, the first that was
\* made; it alone decides the outcome, and later connections stay unaccepted.
C7_OnlyFirstConnectionCounts ==
    /\ Len(accepted) <= 1
    /\ accepted # << >> => accepted[1] = hist.first
    /\ (Returned /\ NoIoFailure /\ accepted # << >>)
         => (result.tag = "Ok" <=> Written(hist.first) = Done)
    /\ Returned => \A p \in Peers : p # hist.first =>
                       \A i \in DOMAIN accepted : accepted[i] # p

C7_Witness ==
    /\ Returned
    /\ result = ProtocolError
    /\ Len(backlog) = 1
    /\ peer[backlog[1]].kind = "notify"
    /\ peer[backlog[1]].res = "Ok"
    /\ hist.acceptTime > hist.firstTime

\* C8 (as claimed): an error of wait has the timeout classification exactly
\* when the loop ran out of time without an accept, and the kinds of the
\* three classes of error (timeout, protocol violation, I/O failure) differ.
C8_TimeoutClassifiedApart ==
    (Returned /\ result.tag = "Err")
    => /\ result.kind = "TimedOut" <=> (result.path = "timeout" /\ accepted = << >>)
       /\ result.kind = "Other" <=> result.path = "protocol"

\* C9: on every return of wait the listening socket is closed: wait cannot
\* be called again, no connection to the port succeeds any more, and a
\* Client::notify issued after the return fails.
C9_WaitConsumesListener ==
    /\ Returned => listener = "closed"
    /\ Returned => ~ENABLED (\E t \in 0..MaxTimeout : WaitCall(t))
    /\ ~hist.lateConnectOk
    /\ Returned => \A p \in Peers :
           (peer[p].pc = "idle" /\ IsNext(p))
           => ENABLED NotifyConnectFail(p) /\ ~ENABLED NotifyConnect(p)

C9_Witness ==
    /\ Returned
    /\ result.path = "timeout"
    /\ \E p \in Peers : peer[p].pc = "failed" /\ peer[p].res = "Err" /\ peer[p].sent = 0

\* C10: Client::notify never waits for the Server: with the listener bound,
\* each of its steps can be taken wherever the Server is, also before wait is
\* called; once it has returned Ok the connection carries exactly "done" and
\* is closed, and a wait that accepts it returns success.
C10_NotifyIsFireAndForget ==
    \A p \in Peers :
        /\ (peer[p].pc = "idle" /\ IsNext(p) /\ PortKnown /\ listener = "open")
             => ENABLED NotifyConnect(p)
        /\ (peer[p].kind = "notify" /\ peer[p].pc = "connected")
             => ENABLED NotifyWrite(p)
        /\ (peer[p].kind = "notify" /\ peer[p].pc = "written")
             => ENABLED NotifyReturn(p)
        /\ peer[p].res = "Ok" => (peer[p].pc = "closed" /\ Written(p) = Done)
        /\ (peer[p].res = "Ok" /\ Returned /\ NoIoFailure /\ accepted = <<p>>)
             => result.tag = "Ok"

C10_Witness ==
    /\ pc = "created"
    /\ \E p \in Peers : peer[p].res = "Ok" /\ backlog = <<p>>


\* C11: a WouldBlock of accept is no error: the poll is followed by a sleep
\* and the loop goes on.  Any other error of accept, and any error of the
\* read, ends wait at once with that very error: every poll either found
\* nothing and was followed by a sleep, or accepted, or failed and was the
\* last; no failure is turned into the timeout error.
C11_OnlyWouldBlockIsRetried ==
    /\ hist.failAt # "none" => (Returned /\ result = IoError(hist.failKind))
    /\ hist.failAt = "accept" => (hist.failKind # "WouldBlock" /\ accepted = << >>)
    /\ hist.polls = hist.sleeps + Len(accepted)
                       + (IF hist.failAt = "accept" THEN 1 ELSE 0)
    /\ pc = "sleep" => (result = NoResult /\ hist.failAt = "none")
    /\ (Returned /\ result.path = "timeout") => hist.failAt = "none"

C11_Witness ==
    /\ Returned
    /\ hist.failAt = "read"
    /\ result = IoError("ConnectionReset")
    /\ hist.sleeps > 0
    /\ WaitElapsed < timeout


\* the connections peer p has established, and the bytes of p that reached
\* the Server's side of its connection
ConnCount(p) ==
    Cardinality({i \in DOMAIN backlog : backlog[i] = p})
      + Cardinality({i \in DOMAIN accepted : accepted[i] = p})
Delivered(p) ==
    (IF accepted # << >> /\ stream = p THEN buf ELSE << >>) \o wire[p]

\* C12: Client::notify opens at most one connection; when it has returned Ok
\* it opened exactly one, on which exactly the bytes "done" were written
\* (nothing before the write) and which it closed; when the connection could
\* not be established it returned an error and nothing was written.
C12_NotifyWritesExactlyDone ==
    \A p \in Peers : peer[p].kind = "notify" =>
        /\ ConnCount(p) <= 1
        /\ peer[p].pc = "connected" => (ConnCount(p) = 1 /\ Delivered(p) = << >>)
        /\ peer[p].res = "Ok"
             => /\ ConnCount(p) = 1
                /\ peer[p].pc = "closed"
                /\ Written(p) = Done
                /\ Delivered(p) = Done
        /\ ConnCount(p) = 0
             => /\ peer[p].pc = "failed"
                /\ peer[p].res = "Err"
                /\ Written(p) = << >>
                /\ Delivered(p) = << >>

C12_Witness ==
    \E p, q \in Peers :
        /\ peer[p].kind = "notify" /\ peer[p].res = "Ok"
        /\ accepted = <<p>> /\ buf = Done
        /\ peer[q].kind = "notify" /\ peer[q].res = "Err" /\ ConnCount(q) = 0

\* C13: the port is fixed at Server::new; every call of port returns it and
\* changes nothing else (no connection is accepted, nothing pending is
\* consumed); a peer that connects to the returned port while the listener
\* is open reaches this listener, and its "done" makes wait return success.
C13_PortInv ==
    /\ handed \subseteq {port}
    /\ \A p \in Peers :
          /\ ConnCount(p) > 0 => PortKnown
          /\ (PortKnown /\ listener = "open" /\ peer[p].pc = "idle" /\ IsNext(p))
               => (ENABLED NotifyConnect(p) /\ ~ENABLED NotifyConnectFail(p))
    /\ (Returned /\ NoIoFailure /\ accepted # << >> /\ Written(accepted[1]) = Done)
         => result.tag = "Ok"
C13_PortStep ==
    /\ port' = port
    /\ handed' # handed
         => /\ handed' = handed \cup {port}
            /\ UNCHANGED <<now, pc, nonblocking, timeout, start, wakeAt, listener,
                           backlog, accepted, buf, result, peer, wire, hist>>
C14_ZeroTimeoutNeverPolls ==
    /\ timeout = 0 => pc \notin {"accept", "read", "sleep"}
    /\ (Returned /\ timeout = 0 /\ hist.failAt # "setup")
         => /\ result = TimeoutError
            /\ hist.polls = 0
            /\ hist.sleeps = 0
            /\ accepted = << >>
            /\ WaitElapsed = 0

C14_Witness ==
    /\ Returned
    /\ timeout = 0
    /\ hist.pendingAtStart
    /\ result = TimeoutError
    /\ backlog # << >>

\* C15: the listener is non-blocking from before the start timestamp on;
\* an accept is attempted only right after a deadline check that saw
\* elapsed < timeout; each poll that found nothing is followed by exactly one
\* sleep of the poll interval before the next check; nothing sleeps once a
\* connection has been accepted.
C15_PollOrdering ==
    /\ pc \in {"start", "check", "accept", "read", "sleep"} => nonblocking
    /\ pc = "accept" => (Elapsed < timeout /\ hist.polls = hist.sleeps)
    /\ hist.polls > 0 => (hist.polls - 1) * PollInterval < timeout
    /\ pc = "sleep" => /\ hist.sleeps = hist.polls
                       /\ wakeAt = start + hist.sleeps * PollInterval
                       /\ now <= wakeAt
    /\ pc = "check" => /\ hist.sleeps = hist.polls
                       /\ Elapsed = hist.sleeps * PollInterval
    /\ accepted # << >> => /\ pc \in {"read", "done"}
                           /\ hist.sleeps = hist.polls - 1
                           /\ hist.acceptTime - start = hist.sleeps * PollInterval

C15_Witness ==
    /\ pc = "check"
    /\ hist.sleeps = 2
    /\ hist.polls = 2
    /\ Elapsed = 2 * PollInterval

\* C16: a connection established after the last poll of wait (during the
\* final sleep, or when the deadline has passed) is never accepted, and wait
\* returns the timeout error, although the Client::notify that made it
\* returned Ok while the listener was open.
C16_LateNotifyIsLost ==
    hist.firstLate
    => /\ accepted = << >>
       /\ backlog # << >> /\ Head(backlog) = hist.first
       /\ Returned => result = TimeoutError
       /\ ~Returned => listener = "open"

C16_Witness ==
    /\ hist.firstLate
    /\ pc = "sleep"
    /\ listener = "open"
    /\ peer[hist.first].kind = "notify"
    /\ peer[hist.first].res = "Ok"
    /\ FirstDelay < timeout

\* C17: when wait returns success, the accept was made in an iteration whose
\* deadline check saw elapsed < timeout, and the duration returned is the
\* elapsed time when end-of-stream was read, hence >= the elapsed time at the
\* accept (and possibly >= timeout).
C17_SuccessDurationAfterRead ==
    result.tag = "Ok"
    => /\ hist.acceptTime - start < timeout
       /\ result.dur = WaitElapsed
       /\ result.dur >= hist.acceptTime - start

C17_Witness ==
    /\ result.tag = "Ok"
    /\ result.dur >= timeout
    /\ result.dur > hist.acceptTime - start

\* the four outcomes of wait, as the caller sees them
IsSuccess == result.tag = "Ok"
IsTimeout == result = TimeoutError
IsProtocol == result = ProtocolError
IsIoFailure == result.tag = "Err" /\ result.msg = "os error"

\* C18: a wait that has returned has exactly one of the four outcomes
\* (and one that has not, none); success and protocol violation come only
\* after an accept succeeded, the timeout only when none did.
C18_ExactlyOneOutcome ==
    /\ Returned =>
          Cardinality({o \in {"s", "t", "p", "i"} :
                         \/ o = "s" /\ IsSuccess
                         \/ o = "t" /\ IsTimeout
                         \/ o = "p" /\ IsProtocol
                         \/ o = "i" /\ IsIoFailure}) = 1
    /\ ~Returned => result = NoResult
    /\ (IsSuccess \/ IsProtocol) => (Returned /\ Len(accepted) = 1)
    /\ IsTimeout => (Returned /\ accepted = << >>)

C18_Witness ==
    /\ IsProtocol
    /\ Len(accepted) = 1
    /\ backlog # << >>
    /\ WaitElapsed >= timeout

=============================================================================
